---- MODULE Spec2Model ----
(***************************************************************************)
(* heuristic_date.interpret: heuristic decoding of a date from free text.  *)
(*                                                                         *)
(* A text (Python str) is a sequence of characters; a character is a       *)
(* one-character string, except the two non-ASCII characters the model     *)
(* needs, which are written by their code point:                           *)
(*   "U+2026"  HORIZONTAL ELLIPSIS, the first character of every tag the   *)
(*             program writes into its token list,                         *)
(*   "U+00B2"  SUPERSCRIPT TWO, a character for which str.isdigit() is     *)
(*             true and int() raises ValueError.                           *)
(* Python indexes from 0, the model from 1.                                *)
(***************************************************************************)
EXTENDS Integers, Sequences, FiniteSets

VARIABLES instr, l, year, month, day, nbrs, n, pc, outcome, result

vars == <<instr, l, year, month, day, nbrs, n, pc, outcome, result>>

\* Python's None for year, month, day
None == -1

YEAR_LOW == 1900
YEAR_HIGH == 2026
Y2K_LOW == 32
Y2K_HIGH == 99

ELLIPSIS == "U+2026"
SUPERSCRIPT_TWO == "U+00B2"

DecimalDigits == {"0", "1", "2", "3", "4", "5", "6", "7", "8", "9"}

\* str.isdigit() of one character
isdigit(c) == c \in DecimalDigits \cup {SUPERSCRIPT_TWO}

\* str.isdigit() of a text
str_isdigit(x) == Len(x) > 0 /\ \A i \in 1..Len(x) : isdigit(x[i])

DigitVal(c) ==
    CASE c = "0" -> 0 [] c = "1" -> 1 [] c = "2" -> 2 [] c = "3" -> 3
      [] c = "4" -> 4 [] c = "5" -> 5 [] c = "6" -> 6 [] c = "7" -> 7
      [] c = "8" -> 8 [] c = "9" -> 9

\* int(x) raises ValueError unless every character is a decimal digit
int_raises(x) == \E i \in 1..Len(x) : x[i] \notin DecimalDigits

RECURSIVE int(_)
int(x) ==
    IF Len(x) = 0 THEN 0
    ELSE 10 * int(SubSeq(x, 1, Len(x) - 1)) + DigitVal(x[Len(x)])

\* The bound checks take the value int(x); a caller that holds a text
\* passes int of it, which is the conversion the function starts with.
is_year(v) == YEAR_LOW <= v /\ v <= YEAR_HIGH

\* faulty variant: the lower bound is not checked
is_y2k_no_low(v) == v <= Y2K_HIGH

is_y2k(v) == Y2K_LOW <= v /\ v <= Y2K_HIGH

\* faulty variant: December is rejected
is_month_below_12(v) == 1 <= v /\ v < 12

is_month(v) == 1 <= v /\ v <= 12

\* faulty variant: the 31st is rejected
is_day_below_31(v) == 1 <= v /\ v < 31

is_day(v) == 1 <= v /\ v <= 31

\* Python slice x[a:b] with 0 <= a <= b
Slice(x, a, b) == SubSeq(x, a + 1, IF b < Len(x) THEN b ELSE Len(x))

DigitChar(d) ==
    CASE d = 0 -> "0" [] d = 1 -> "1" [] d = 2 -> "2" [] d = 3 -> "3"
      [] d = 4 -> "4" [] d = 5 -> "5" [] d = 6 -> "6" [] d = 7 -> "7"
      [] d = 8 -> "8" [] d = 9 -> "9"

RECURSIVE str_d(_)
\* "%d" % v for v >= 0
str_d(v) ==
    IF v < 10 THEN <<DigitChar(v)>>
    ELSE Append(str_d(v \div 10), DigitChar(v % 10))

RECURSIVE ZeroFill(_, _)
ZeroFill(s, w) == IF Len(s) >= w THEN s ELSE ZeroFill(<<"0">> \o s, w)

\* faulty variant: "%d", no zero padding
fmt_d_unpadded(v, w) == str_d(v)

\* "%04d" % v, "%02d" % v
fmt_d(v, w) == ZeroFill(str_d(v), w)

fmt_y(y) == fmt_d(y, 4)

fmt_ym(y, m) == fmt_d(y, 4) \o <<"-">> \o fmt_d(m, 2)

fmt_ymd(y, m, d) == fmt_d(y, 4) \o <<"-">> \o fmt_d(m, 2) \o <<"-">> \o fmt_d(d, 2)

----------------------------------------------------------------------------
\* Tokenizer: runs of digits and non-digits

RECURSIVE SplitFrom(_, _, _)
SplitFrom(s, k, acc) ==
    IF k > Len(s) THEN acc
    ELSE LET i == s[k]
             last == acc[Len(acc)]
         IN  IF isdigit(i) # isdigit(last[Len(last)])
             THEN SplitFrom(s, k + 1, Append(acc, <<i>>))
             ELSE SplitFrom(s, k + 1, [acc EXCEPT ![Len(acc)] = Append(last, i)])

SplitRuns(s) == SplitFrom(s, 2, << <<s[1]>> >>)

----------------------------------------------------------------------------
\* Numeric classifier: the rules that end the loop (break)

IsYMD8(x) ==
    Len(x) = 8 /\ is_year(int(Slice(x, 0, 4))) /\ is_month(int(Slice(x, 4, 6)))
               /\ is_day(int(Slice(x, 6, 8)))

IsDMY8(x) ==
    Len(x) = 8 /\ is_day(int(Slice(x, 0, 2))) /\ is_month(int(Slice(x, 2, 4)))
               /\ is_year(int(Slice(x, 4, 8)))

IsYM6(x) == Len(x) = 6 /\ is_year(int(Slice(x, 0, 4))) /\ is_month(int(Slice(x, 4, 6)))

IsYMD6(x) ==
    Len(x) = 6 /\ is_y2k(int(Slice(x, 0, 2))) /\ is_month(int(Slice(x, 2, 4)))
               /\ is_day(int(Slice(x, 4, 6)))

IsDMY6(x) ==
    Len(x) = 6 /\ is_day(int(Slice(x, 0, 2))) /\ is_month(int(Slice(x, 2, 4)))
               /\ is_y2k(int(Slice(x, 4, 6)))

IsYM4(x) == Len(x) = 4 /\ is_y2k(int(Slice(x, 0, 2))) /\ is_month(int(Slice(x, 2, 4)))

\* some rule of lines 124-158 applies to the run x when the year is y
Breaks(x, y) ==
    \/ IsYMD8(x) \/ IsDMY8(x) \/ IsYM6(x) \/ IsYMD6(x) \/ IsDMY6(x)
    \/ (y = None /\ IsYM4(x))

\* <<year, month, day>> committed by the first rule that applies
BreakDate(x) ==
    CASE IsYMD8(x) ->
           <<int(Slice(x, 0, 4)), int(Slice(x, 4, 6)), int(Slice(x, 6, 8))>>
      [] ~IsYMD8(x) /\ IsDMY8(x) ->
           <<int(Slice(x, 4, 8)), int(Slice(x, 2, 4)), int(Slice(x, 0, 2))>>
      [] IsYM6(x) ->
           <<int(Slice(x, 0, 4)), int(Slice(x, 4, 6)), None>>
      [] ~IsYM6(x) /\ IsYMD6(x) ->
           <<int(Slice(x, 0, 2)) + 1900, int(Slice(x, 2, 4)), int(Slice(x, 4, 6))>>
      [] ~IsYM6(x) /\ ~IsYMD6(x) /\ IsDMY6(x) ->
           <<int(Slice(x, 4, 6)) + 1900, int(Slice(x, 2, 4)), int(Slice(x, 0, 2))>>
      [] IsYM4(x) ->
           <<int(Slice(x, 0, 2)), int(Slice(x, 2, 4)), None>>

\* the tags written into the token list
TagY(x) == <<ELLIPSIS, "y">> \o x

TagY19(x) == <<ELLIPSIS, "y", "1", "9">> \o x

TagD(x) == <<ELLIPSIS, "d">> \o x

TagN(x) == <<ELLIPSIS, "n">> \o x

----------------------------------------------------------------------------
\* Month names: the catalogue, one entry per month, alternatives in the
\* order of the regular expression

MONTHS ==
    <<
       [regex |-> <<<<"j", "a", "n", "u", "a", "r", "y">>,
                   <<"j", "a", "n", "u", "a", "r">>,
                   <<"j", "a", "n">>>>,
        mon_id |-> <<ELLIPSIS, "m", "1">>],
       [regex |-> <<<<"f", "e", "b", "r", "u", "a", "r", "y">>,
                   <<"f", "e", "b", "r", "u", "a", "r">>,
                   <<"f", "e", "b">>>>,
        mon_id |-> <<ELLIPSIS, "m", "2">>],
       [regex |-> <<<<"m", "a", "r", "c", "h">>,
                   <<"m", "a", "r", "t", "s">>,
                   <<"m", "a", "r">>>>,
        mon_id |-> <<ELLIPSIS, "m", "3">>],
       [regex |-> <<<<"a", "p", "r", "i", "l">>,
                   <<"a", "p", "r">>>>,
        mon_id |-> <<ELLIPSIS, "m", "4">>],
       [regex |-> <<<<"m", "a", "j">>,
                   <<"m", "a", "y">>>>,
        mon_id |-> <<ELLIPSIS, "m", "5">>],
       [regex |-> <<<<"j", "u", "n", "e">>,
                   <<"j", "u", "n", "i">>,
                   <<"j", "u", "n">>>>,
        mon_id |-> <<ELLIPSIS, "m", "6">>],
       [regex |-> <<<<"j", "u", "l", "y">>,
                   <<"j", "u", "l", "i">>,
                   <<"j", "u", "l">>>>,
        mon_id |-> <<ELLIPSIS, "m", "7">>],
       [regex |-> <<<<"a", "u", "g", "u", "s", "t">>,
                   <<"a", "u", "g">>>>,
        mon_id |-> <<ELLIPSIS, "m", "8">>],
       [regex |-> <<<<"s", "e", "p", "t", "e", "m", "b", "e", "r">>,
                   <<"s", "e", "p", "t">>,
                   <<"s", "e", "p">>>>,
        mon_id |-> <<ELLIPSIS, "m", "9">>],
       [regex |-> <<<<"o", "c", "t", "o", "b", "e", "r">>,
                   <<"o", "c", "t">>,
                   <<"o", "k", "t", "o", "b", "e", "r">>,
                   <<"o", "k", "t">>>>,
        mon_id |-> <<ELLIPSIS, "m", "1", "0">>],
       [regex |-> <<<<"n", "o", "v", "e", "m", "b", "e", "r">>,
                   <<"n", "o", "v">>>>,
        mon_id |-> <<ELLIPSIS, "m", "1", "1">>],
       [regex |-> <<<<"d", "e", "c", "e", "m", "b", "e", "r">>,
                   <<"d", "e", "c">>>>,
        mon_id |-> <<ELLIPSIS, "m", "1", "2">>]
    >>

UpperCase ==
    <<"A", "B", "C", "D", "E", "F", "G", "H", "I", "J", "K", "L", "M",
      "N", "O", "P", "Q", "R", "S", "T", "U", "V", "W", "X", "Y", "Z">>

LowerCase ==
    <<"a", "b", "c", "d", "e", "f", "g", "h", "i", "j", "k", "l", "m",
      "n", "o", "p", "q", "r", "s", "t", "u", "v", "w", "x", "y", "z">>

\* re.IGNORECASE: characters are compared by their lower-case form
LowerOf == [c \in {UpperCase[i] : i \in 1..26} |->
              LowerCase[CHOOSE i \in 1..26 : UpperCase[i] = c]]

lower(c) == IF c \in DOMAIN LowerOf THEN LowerOf[c] ELSE c

\* the word w matches the text t at (1-based) position p
MatchAt(w, t, p) ==
    /\ p + Len(w) - 1 <= Len(t)
    /\ \A j \in 1..Len(w) : lower(t[p + j - 1]) = w[j]

\* an alternation tries its alternatives in order: index of the first
\* alternative that matches at p, 0 when none does
AltAt(alts, t, p) ==
    IF \E a \in 1..Len(alts) : MatchAt(alts[a], t, p)
    THEN CHOOSE a \in 1..Len(alts) :
            /\ MatchAt(alts[a], t, p)
            /\ \A b \in 1..(a - 1) : ~MatchAt(alts[b], t, p)
    ELSE 0

\* no match: regex.search() returned None
NoMatch == <<>>

RECURSIVE SearchFrom(_, _, _)
SearchFrom(alts, t, p) ==
    IF p > Len(t) THEN NoMatch
    ELSE LET a == AltAt(alts, t, p)
         IN  IF a # 0 THEN <<p - 1, p - 1 + Len(alts[a])>>
             ELSE SearchFrom(alts, t, p + 1)

\* regex.search(t).span(): the leftmost match, as Python's (start, end)
regex_search(alts, t) == SearchFrom(alts, t, 1)

\* faulty variant: the comparison is reversed, the last match wins
SpanGreater(a, b) == a[1] > b[1] \/ (a[1] = b[1] /\ a[2] > b[2])

\* comparison of two spans as Python tuples
SpanLess(a, b) == a[1] < b[1] \/ (a[1] = b[1] /\ a[2] < b[2])

RECURSIVE FirstMatch(_, _, _)
\* the loop over MONTHS for one token: <<first_match span, first_mon_id>>
FirstMatch(t, i, acc) ==
    IF i > Len(MONTHS) THEN acc
    ELSE LET match == regex_search(MONTHS[i].regex, t)
         IN  IF match = NoMatch THEN FirstMatch(t, i + 1, acc)
             ELSE IF acc[1] = NoMatch \/ SpanLess(match, acc[1])
                  THEN FirstMatch(t, i + 1, <<match, MONTHS[i].mon_id>>)
                  ELSE FirstMatch(t, i + 1, acc)

first_match(t) == FirstMatch(t, 1, <<NoMatch, <<>> >>)

\* the token list after the token at n was popped and its pieces inserted
SpliceMonth(toks, k, span, mon_id) ==
    LET x == toks[k]
        pre == IF span[1] > 0 THEN << Slice(x, 0, span[1]) >> ELSE <<>>
        suf == IF span[2] < Len(x) THEN << Slice(x, span[2], Len(x)) >> ELSE <<>>
    IN  SubSeq(toks, 1, k - 1) \o pre \o <<mon_id>> \o suf
          \o SubSeq(toks, k + 1, Len(toks))

----------------------------------------------------------------------------
\* Disambiguation and formatting

RECURSIVE join(_)
join(toks) == IF Len(toks) = 0 THEN <<>> ELSE toks[1] \o join(Tail(toks))

count(x, sep) == Cardinality({i \in 1..Len(x) : x[i] = sep})

HasTwoSeps(x) == count(x, "-") = 2 \/ count(x, ".") = 2

StartsWithY(t) == Slice(t, 0, 2) = <<ELLIPSIS, "y">>

Disambiguate(y, m, d, nb, toks) ==
    IF m # None /\ d # None THEN fmt_ymd(y, m, d)
    ELSE IF m # None /\ Len(nb) = 0 THEN fmt_ym(y, m)
    ELSE IF m # None /\ Len(nb) = 1 /\ is_day(nb[1]) THEN fmt_ymd(y, m, nb[1])
    ELSE IF d # None /\ Len(nb) = 1 /\ is_month(nb[1]) THEN fmt_ymd(y, nb[1], d)
    ELSE IF m = None /\ d = None /\ Len(nb) = 1 /\ is_month(nb[1])
         THEN fmt_ym(y, nb[1])
    ELSE IF /\ Len(nb) = 2
            /\ StartsWithY(toks[Len(toks)])
            /\ is_day(nb[1]) /\ is_month(nb[2])
            /\ HasTwoSeps(join(toks))
         THEN fmt_ymd(y, nb[2], nb[1])
    ELSE IF /\ Len(nb) = 2
            /\ StartsWithY(toks[1])
            /\ is_day(nb[2]) /\ is_month(nb[1])
            /\ HasTwoSeps(join(toks))
         THEN fmt_ymd(y, nb[1], nb[2])
    ELSE IF m # None THEN fmt_ym(y, m)
    ELSE fmt_y(y)

----------------------------------------------------------------------------
\* Inputs

\* number of digit runs and words in a composed input
MaxItems == 3

T1983 == <<"1", "9", "8", "3">>

Items ==
    { T1983, <<"1", "5">>, <<"1", "2">>, <<"7">>, <<"4", "5">>, <<"a", "u", "g">> }

\* <<separator after the first item, separator after the later items>>
SepPairs ==
    { <<" ", " ">>, <<".", ".">>, <<"-", "-">>, <<"-", ".">> }

RECURSIVE Composed(_, _, _)
\* k of the items, joined by the separators of the pair sp
Composed(items, k, sp) ==
    IF k = 1 THEN items
    ELSE { t \o <<IF k = 2 THEN sp[1] ELSE sp[2]>> \o i :
             t \in Composed(items, k - 1, sp), i \in items }

ComposedInputs ==
    UNION { Composed(Items, k, sp) : k \in 1..MaxItems, sp \in SepPairs }

\* numbers only, with a text glued in front or behind
Numbers == { T1983, <<"8", "3">>, <<"7">> }

Leads ==
    { <<"a", "u", "g", " ">>, <<"1", "5", " ">>, <<ELLIPSIS, "y">>,
      <<SUPERSCRIPT_TWO, " ">> }

Trails ==
    { <<" ", "a", "u", "g">>, <<" ", "1", "5">>, <<ELLIPSIS, "y">>,
      <<SUPERSCRIPT_TWO>> }

NumberInputs ==
    UNION { Composed(Numbers, k, sp) : k \in 1..MaxItems, sp \in SepPairs }

GluedInputs ==
    { w \o t : w \in Leads, t \in NumberInputs }
      \cup { t \o w : t \in NumberInputs, w \in Trails }

\* a year, a day above 12 and a month number in each of the six orders
OrderYears == {1900, 1983, YEAR_HIGH}

Perms3 ==
    { <<1, 2, 3>>, <<1, 3, 2>>, <<2, 1, 3>>, <<2, 3, 1>>, <<3, 1, 2>>, <<3, 2, 1>> }

Ordering(t, p) == t[p[1]] \o <<" ">> \o t[p[2]] \o <<" ">> \o t[p[3]]

Orderings(y, d, m) == { Ordering(<<str_d(y), str_d(d), str_d(m)>>, p) : p \in Perms3 }

OrderInputs == UNION { Orderings(y, d, m) : y \in OrderYears, d \in 13..31, m \in 1..12 }

\* digit blocks of 4, 6 and 8 digits made of two-digit parts around the bounds
Parts == {0, 1, 12, 13, 18, 19, 20, 26, 27, 31, 32, 99}

P2(v) == fmt_d(v, 2)

Blocks4 == { P2(a) \o P2(b) : a \in Parts, b \in Parts }

Blocks6 == { x \o P2(c) : x \in Blocks4, c \in Parts }

Blocks8 == { x \o P2(c) : x \in Blocks6, c \in Parts }

BlockInputs == Blocks4 \cup Blocks6 \cup Blocks8

\* a block after other items, and before one
SomeBlocks ==
    { <<"2", "0", "2", "3", "0", "4", "1", "6">>,
      <<"1", "6", "0", "4", "2", "0", "2", "3">>,
      <<"1", "9", "8", "4", "1", "2">>,
      <<"9", "9", "0", "1", "0", "2">>,
      <<"0", "2", "0", "1", "9", "9">>,
      <<"8", "3", "0", "6">> }

Before == UNION { Composed(Items, k, <<" ", " ">>) : k \in 1..(MaxItems - 1) }

PrefixedInputs ==
    { b \o <<" ">> \o t : b \in Before, t \in SomeBlocks }
      \cup { t \o <<" ">> \o i : t \in SomeBlocks, i \in Items }

\* tokens that hold one or two month names, in lower and in upper case
NameWords ==
    UNION { { MONTHS[e].regex[a] : a \in 1..Len(MONTHS[e].regex) } :
              e \in 1..Len(MONTHS) }

UpperOf == [c \in {LowerCase[i] : i \in 1..26} |->
              UpperCase[CHOOSE i \in 1..26 : LowerCase[i] = c]]

upper(w) == [i \in 1..Len(w) |-> UpperOf[w[i]]]

SecondNames == { <<>>, <<"j", "a", "n">>, <<"d", "e", "c">>, <<"M", "a", "y">> }

NameTokens ==
    { pre \o w \o mid \o w2 :
        pre \in { <<>>, <<"x">> },
        w \in NameWords \cup { upper(v) : v \in NameWords },
        mid \in { <<>>, <<".">> },
        w2 \in SecondNames }

FewTokens ==
    { <<" ">>, <<SUPERSCRIPT_TWO>>, <<"a", "u", "g">>, <<".", "O", "k", "t", ".">>,
      <<"m", "a", "r", "t", "s", " ">> }

MonthInputs ==
    { t \o T1983 : t \in NameTokens }
      \cup { T1983 \o t : t \in NameTokens }
      \cup { a \o <<"1", "2">> \o b \o T1983 : a \in FewTokens, b \in FewTokens }

Inputs ==
    ComposedInputs \cup OrderInputs \cup BlockInputs \cup PrefixedInputs
      \cup MonthInputs \cup GluedInputs \cup { <<SUPERSCRIPT_TWO>> }

----------------------------------------------------------------------------
\* interpret(instr), one action per step of its loops

Init ==
    /\ instr \in Inputs
    /\ l = <<>>
    /\ year = None
    /\ month = None
    /\ day = None
    /\ nbrs = <<>>
    /\ n = 0
    /\ pc = "split"
    /\ outcome = "running"
    /\ result = <<>>

\* lines 111-116
Split ==
    /\ pc = "split"
    /\ l' = SplitRuns(instr)
    /\ n' = 1
    /\ pc' = "classify"
    /\ UNCHANGED <<instr, year, month, day, nbrs, outcome, result>>

\* lines 120-121: not a digit run
ClassifySkip ==
    /\ pc = "classify"
    /\ n <= Len(l)
    /\ ~str_isdigit(l[n])
    /\ n' = n + 1
    /\ UNCHANGED <<instr, l, year, month, day, nbrs, pc, outcome, result>>

\* line 122: int(x) raises ValueError, which interpret does not catch
ClassifyRaise ==
    /\ pc = "classify"
    /\ n <= Len(l)
    /\ str_isdigit(l[n])
    /\ int_raises(l[n])
    /\ pc' = "done"
    /\ outcome' = "ValueError"
    /\ UNCHANGED <<instr, l, year, month, day, nbrs, n, result>>

\* lines 124-158: a rule that commits a date and leaves the loop
ClassifyBreak ==
    /\ pc = "classify"
    /\ n <= Len(l)
    /\ str_isdigit(l[n])
    /\ ~int_raises(l[n])
    /\ Breaks(l[n], year)
    /\ year' = BreakDate(l[n])[1]
    /\ month' = BreakDate(l[n])[2]
    /\ day' = BreakDate(l[n])[3]
    /\ n' = 1
    /\ pc' = "months"
    /\ UNCHANGED <<instr, l, nbrs, outcome, result>>

\* lines 160-171: tag the run as year, day or number, or leave it alone
ClassifyTag ==
    /\ pc = "classify"
    /\ n <= Len(l)
    /\ str_isdigit(l[n])
    /\ ~int_raises(l[n])
    /\ ~Breaks(l[n], year)
    /\ LET x == l[n]
           v == int(x)
       IN  IF year = None /\ Len(x) = 4 /\ is_year(v)
           THEN /\ l' = [l EXCEPT ![n] = TagY(x)]
                /\ year' = v
                /\ UNCHANGED <<day, nbrs>>
           ELSE IF year = None /\ Len(x) = 2 /\ is_y2k(v)
           THEN /\ l' = [l EXCEPT ![n] = TagY19(x)]
                /\ year' = 1900 + v
                /\ UNCHANGED <<day, nbrs>>
           ELSE IF day = None /\ Len(x) = 2 /\ v > 12 /\ is_day(v)
           THEN /\ l' = [l EXCEPT ![n] = TagD(x)]
                /\ day' = v
                /\ UNCHANGED <<year, nbrs>>
           ELSE IF Len(x) <= 2 /\ v # 0
           THEN /\ l' = [l EXCEPT ![n] = TagN(x)]
                /\ nbrs' = Append(nbrs, v)
                /\ UNCHANGED <<year, day>>
           ELSE UNCHANGED <<l, year, day, nbrs>>
    /\ n' = n + 1
    /\ UNCHANGED <<instr, month, pc, outcome, result>>

\* line 119: the list is exhausted; line 174
ClassifyEnd ==
    /\ pc = "classify"
    /\ n > Len(l)
    /\ n' = 1
    /\ pc' = "months"
    /\ UNCHANGED <<instr, l, year, month, day, nbrs, outcome, result>>

\* lines 176-197, one pass of the loop: without a month name in the token at
\* n the loop goes on to the next token; with one the token is split around
\* the name. month = l[n][2:] is the text after the tag's two characters,
\* line 204 converts it.
MonthStep ==
    /\ pc = "months"
    /\ n <= Len(l) /\ month = None
    /\ LET fm == first_match(l[n])
           span == fm[1]
           mon_id == fm[2]
       IN  IF span = NoMatch
           THEN /\ n' = n + 1
                /\ UNCHANGED <<l, month>>
           ELSE /\ l' = SpliceMonth(l, n, span, mon_id)
                /\ month' = int(Slice(mon_id, 2, Len(mon_id)))
                /\ n' = n + (IF span[1] > 0 THEN 1 ELSE 0) + 1
    /\ UNCHANGED <<instr, year, day, nbrs, pc, outcome, result>>

\* line 175: the loop condition fails
MonthEnd ==
    /\ pc = "months"
    /\ ~(n <= Len(l) /\ month = None)
    /\ pc' = "resolve"
    /\ UNCHANGED <<instr, l, year, month, day, nbrs, n, outcome, result>>

\* lines 199-200
ReturnNone ==
    /\ pc = "resolve"
    /\ year = None
    /\ pc' = "done"
    /\ outcome' = "None"
    /\ UNCHANGED <<instr, l, year, month, day, nbrs, n, result>>

\* lines 202-237
ReturnDate ==
    /\ pc = "resolve"
    /\ year # None
    /\ pc' = "done"
    /\ outcome' = "date"
    /\ result' = Disambiguate(year, month, day, nbrs, l)
    /\ UNCHANGED <<instr, l, year, month, day, nbrs, n>>

Next ==
    \/ Split
    \/ ClassifySkip
    \/ ClassifyRaise
    \/ ClassifyBreak
    \/ ClassifyTag
    \/ ClassifyEnd
    \/ MonthStep
    \/ MonthEnd
    \/ ReturnNone
    \/ ReturnDate

Spec == Init /\ [][Next]_vars

----------------------------------------------------------------------------
\* Properties

\* the fields of a returned date string
ResultYear == int(Slice(result, 0, 4))

ResultMonth == int(Slice(result, 5, 7))

ResultDay == int(Slice(result, 8, 10))

\* a run of decimal digits
IsDecimalRun(x) == Len(x) > 0 /\ \A i \in 1..Len(x) : x[i] \in DecimalDigits

\* C1: a returned date has its year in [1900, YEAR_HIGH], and a lone
\* four-digit run YYMM with YY in [32,99], MM in [1,12] gives the year 1900+YY
C1_YearInRange ==
    outcome = "date" =>
        /\ 1900 <= ResultYear /\ ResultYear <= YEAR_HIGH
        /\ (/\ Len(instr) = 4 /\ IsDecimalRun(instr)
            /\ int(Slice(instr, 0, 2)) \in 32..99
            /\ int(Slice(instr, 2, 4)) \in 1..12)
           => ResultYear = 1900 + int(Slice(instr, 0, 2))

\* C2: once the year is set, no later step of the call changes it
C2_YearSetOnce == [][year # None => year' = year]_vars

\* a year-producing rule holds of the run x
YearRule(x) ==
    LET f(a, b) == int(Slice(x, a, b))
    IN  \/ Len(x) = 8 /\ f(0, 4) \in 1900..YEAR_HIGH /\ f(4, 6) \in 1..12
                      /\ f(6, 8) \in 1..31
        \/ Len(x) = 8 /\ f(0, 2) \in 1..31 /\ f(2, 4) \in 1..12
                      /\ f(4, 8) \in 1900..YEAR_HIGH
        \/ Len(x) = 6 /\ f(0, 4) \in 1900..YEAR_HIGH /\ f(4, 6) \in 1..12
        \/ Len(x) = 6 /\ f(0, 2) \in 32..99 /\ f(2, 4) \in 1..12 /\ f(4, 6) \in 1..31
        \/ Len(x) = 6 /\ f(0, 2) \in 1..31 /\ f(2, 4) \in 1..12 /\ f(4, 6) \in 32..99
        \/ Len(x) = 4 /\ f(0, 2) \in 32..99 /\ f(2, 4) \in 1..12
        \/ Len(x) = 4 /\ f(0, 4) \in 1900..YEAR_HIGH
        \/ Len(x) = 2 /\ f(0, 2) \in 32..99

SomeYearRun(s) ==
    \E k \in 1..Len(SplitRuns(s)) :
        IsDecimalRun(SplitRuns(s)[k]) /\ YearRule(SplitRuns(s)[k])

\* C3: a call ends with None or with a date string, and with None exactly
\* when no digit run of the input satisfies a year-producing rule
C3_NoneIffNoYear ==
    pc = "done" =>
        /\ outcome \in {"None", "date"}
        /\ (outcome = "None") <=> ~SomeYearRun(instr)

\* The equivalence of C3 holds of the inputs without a non-decimal digit.
NoneIffNoYearDecimal ==
    (\A i \in 1..Len(instr) : instr[i] # SUPERSCRIPT_TWO) => C3_NoneIffNoYear

\* instr is a four-digit year, a day in [13,31] and a month number in [1,12],
\* in the order p, separated by single spaces
IsOrderingOf(toks, p) ==
    LET t == <<toks[1], toks[3], toks[5]>>
    IN  /\ \A i \in 1..3 : IsDecimalRun(t[i])
        /\ Len(t[p[1]]) = 4 /\ int(t[p[1]]) \in 1900..YEAR_HIGH
        /\ Len(t[p[2]]) = 2 /\ int(t[p[2]]) \in 13..31
        /\ t[p[3]] = str_d(int(t[p[3]])) /\ int(t[p[3]]) \in 1..12

\* C4: a year, a day above 12 and a month number, separated by single
\* spaces, give the full date Y-MM-DD in each of the six orders
C4_OrderIndependent ==
    pc = "done" =>
        LET toks == SplitRuns(instr)
        IN  (Len(toks) = 5 /\ toks[2] = <<" ">> /\ toks[4] = <<" ">>) =>
                \A p \in Perms3 :
                    IsOrderingOf(toks, p) =>
                        /\ outcome = "date"
                        /\ result = fmt_ymd(int(toks[2 * p[1] - 1]),
                                            int(toks[2 * p[3] - 1]),
                                            int(toks[2 * p[2] - 1]))

C4_Witness ==
    /\ pc = "done"
    /\ instr = <<"3", "1", " ", "1", "9", "8", "3", " ", "1", "2">>
    /\ result = <<"1", "9", "8", "3", "-", "1", "2", "-", "3", "1">>

\* the token at k is the one the classifier tagged as the year (the token
\* list has not been split: the month is unset)
YearTaggedAt(k) ==
    /\ str_isdigit(SplitRuns(instr)[k])
    /\ Slice(l[k], 0, 2) = <<ELLIPSIS, "y">>

\* C5: with the year set, month and day unset and exactly two candidates
\* a, b: year-b-a when the last token is the year and the text has exactly
\* two '-' or two '.', year-a-b when the first token is the year, else the year
C5_TwoCandidates ==
    (pc = "done" /\ outcome = "date" /\ month = None /\ day = None
       /\ Len(nbrs) = 2) =>
        LET a == nbrs[1]
            b == nbrs[2]
            x == join(l)
            two == count(x, "-") = 2 \/ count(x, ".") = 2
        IN  result =
              IF YearTaggedAt(Len(l)) /\ a \in 1..31 /\ b \in 1..12 /\ two
              THEN fmt_ymd(year, b, a)
              ELSE IF YearTaggedAt(1) /\ b \in 1..31 /\ a \in 1..12 /\ two
              THEN fmt_ymd(year, a, b)
              ELSE fmt_y(year)

\* The table of C5 holds of the inputs without the tag character.
TwoCandidatesPlain ==
    (\A i \in 1..Len(instr) : instr[i] # ELLIPSIS) => C5_TwoCandidates

IsDigitAt(i) == i <= Len(result) /\ result[i] \in DecimalDigits

\* C6: a returned date is YYYY, YYYY-MM or YYYY-MM-DD, zero padded, with the
\* month in [1,12] and the day in [1,31]
C6_Shape ==
    outcome = "date" =>
        /\ Len(result) \in {4, 7, 10}
        /\ \A i \in 1..4 : IsDigitAt(i)
        /\ Len(result) >= 7 =>
              /\ result[5] = "-" /\ IsDigitAt(6) /\ IsDigitAt(7)
              /\ ResultMonth \in 1..12
        /\ Len(result) = 10 =>
              /\ result[8] = "-" /\ IsDigitAt(9) /\ IsDigitAt(10)
              /\ ResultDay \in 1..31

C6_Witness ==
    /\ outcome = "date"
    /\ result = <<"2", "0", "2", "3", "-", "0", "4", "-", "1", "6">>

\* C10: a result with a month reports the month the call committed, and a
\* result with a day reports the day the classifier claimed
C10_CommittedKept ==
    outcome = "date" =>
        /\ (month # None /\ Len(result) >= 7) => ResultMonth = month
        /\ (day # None /\ Len(result) = 10) => ResultDay = day

\* the five full-block predicates of a run of decimal digits
BlockPreds(x) ==
    LET f(a, b) == int(Slice(x, a, b))
    IN  << Len(x) = 8 /\ f(0, 4) \in 1900..YEAR_HIGH /\ f(4, 6) \in 1..12
                      /\ f(6, 8) \in 1..31,
           Len(x) = 8 /\ f(0, 2) \in 1..31 /\ f(2, 4) \in 1..12
                      /\ f(4, 8) \in 1900..YEAR_HIGH,
           Len(x) = 6 /\ f(0, 4) \in 1900..YEAR_HIGH /\ f(4, 6) \in 1..12,
           Len(x) = 6 /\ f(0, 2) \in 32..99 /\ f(2, 4) \in 1..12
                      /\ f(4, 6) \in 1..31,
           Len(x) = 6 /\ f(0, 2) \in 1..31 /\ f(2, 4) \in 1..12
                      /\ f(4, 6) \in 32..99 >>

IsYYMM(x) ==
    Len(x) = 4 /\ int(Slice(x, 0, 2)) \in 32..99 /\ int(Slice(x, 2, 4)) \in 1..12

\* the classifier is at a run of decimal digits
AtRun == pc = "classify" /\ n <= Len(l) /\ IsDecimalRun(l[n])

\* at most one full-block predicate holds of the run the classifier is at
BlocksExclusive ==
    AtRun =>
        LET x == l[n]
            holds == <<IsYMD8(x), IsDMY8(x), IsYM6(x), IsYMD6(x), IsDMY6(x)>>
        IN  Cardinality({ i \in 1..5 : holds[i] }) <= 1

\* the classifier is at a run to which a terminal rule applies
AtTerminal ==
    /\ AtRun
    /\ \/ \E i \in 1..5 : BlockPreds(l[n])[i]
       \/ year = None /\ IsYYMM(l[n])

\* a terminal rule ends the classification, and what it committed stays
TerminalFinal ==
    /\ AtTerminal =>
          /\ pc' = "months" /\ year' # None /\ month' # None
          /\ l' = l /\ nbrs' = nbrs
    /\ (pc \in {"months", "resolve"} /\ month # None) =>
          /\ pc' \in {"resolve", "done"}
          /\ UNCHANGED <<l, nbrs, year, month, day>>
    /\ pc \notin {"split", "classify"} => pc' # "classify"

\* C7: the full-block predicates are mutually exclusive, and once a terminal
\* rule has fired no token is classified or tagged, nothing is appended to
\* the candidates and year, month and day keep the committed values
C7_TerminalRules == []BlocksExclusive /\ [][TerminalFinal]_vars

C7_Witness ==
    /\ pc = "done"
    /\ instr = <<"2", "0", "2", "3", "0", "4", "1", "6", " ", "7">>
    /\ l = << <<"2", "0", "2", "3", "0", "4", "1", "6">>, <<" ">>, <<"7">> >>
    /\ nbrs = <<>>
    /\ result = <<"2", "0", "2", "3", "-", "0", "4", "-", "1", "6">>

\* the catalogue entry e has a name at position p of the token t
NameAt(t, p, e) ==
    \E a \in 1..Len(MONTHS[e].regex) :
        LET w == MONTHS[e].regex[a]
        IN  /\ p + Len(w) - 1 <= Len(t)
            /\ \A j \in 1..Len(w) : lower(t[p + j - 1]) = w[j]

HasName(t) == \E p \in 1..Len(t), e \in 1..12 : NameAt(t, p, e)

\* the token t split around a name of entry e at position p
SplitAround(t, p, e) ==
    { (IF p > 1 THEN << SubSeq(t, 1, p - 1) >> ELSE <<>>)
        \o << <<ELLIPSIS, "m">> \o str_d(e) >>
        \o (IF p + Len(w) <= Len(t) THEN << SubSeq(t, p + Len(w), Len(t)) >>
            ELSE <<>>) :
      w \in { v \in { MONTHS[e].regex[a] : a \in 1..Len(MONTHS[e].regex) } :
                /\ p + Len(v) - 1 <= Len(t)
                /\ \A j \in 1..Len(v) : lower(t[p + j - 1]) = v[j] } }

MonthNameStep ==
    /\ (pc = "months" /\ month # None) => (l' = l /\ month' = month)
    /\ (pc = "months" /\ month = None /\ month' = None) =>
          /\ l' = l
          /\ n <= Len(l) => ~HasName(l[n])
          /\ pc' = "resolve" => \A k \in 1..Len(l) : ~HasName(l[k])
    /\ (pc = "months" /\ month = None /\ month' # None) =>
          /\ \A k \in 1..(n - 1) : ~HasName(l[k])
          /\ HasName(l[n])
          /\ LET t == l[n]
                 p == CHOOSE q \in 1..Len(t) :
                        /\ \E e \in 1..12 : NameAt(t, q, e)
                        /\ \A r \in 1..(q - 1) : \A e \in 1..12 : ~NameAt(t, r, e)
                 e == CHOOSE d \in 1..12 :
                        /\ NameAt(t, p, d)
                        /\ \A c \in 1..(d - 1) : ~NameAt(t, p, c)
             IN  /\ month' = e
                 /\ \E mid \in SplitAround(t, p, e) :
                       l' = SubSeq(l, 1, n - 1) \o mid \o SubSeq(l, n + 1, Len(l))
    /\ pc # "months" => month' = month \/ pc = "classify"

\* C8: the month name is taken from the leftmost token that holds a name, at
\* the smallest offset, the earlier entry winning a tie; the token is split
\* into prefix, tag and suffix; the month is set once; a month set by a
\* numeric rule leaves the tokens alone
C8_MonthName == [][MonthNameStep]_vars

C8_Witness ==
    /\ pc = "done"
    /\ instr = <<"x", "A", "U", "G", ".", "d", "e", "c", "1", "9", "8", "3">>
    /\ l = << <<"x">>, <<ELLIPSIS, "m", "8">>, <<".", "d", "e", "c">>,
              <<ELLIPSIS, "y", "1", "9", "8", "3">> >>
    /\ result = <<"1", "9", "8", "3", "-", "0", "8">>

\* C9 as stated: every candidate is at most 31
C9_SmallCandidates == \A i \in 1..Len(nbrs) : nbrs[i] \in 1..31

CandidatesBounded == \A i \in 1..Len(nbrs) : nbrs[i] \in 1..99

CandidateStep ==
    nbrs' # nbrs =>
        /\ AtRun /\ n' = n + 1
        /\ Len(l[n]) <= 2
        /\ nbrs' = Append(nbrs, int(l[n]))
        /\ \/ int(l[n]) \in 1..12
           \/ int(l[n]) \in 13..31 /\ day # None
           \/ int(l[n]) \in 32..99 /\ year # None

\* C9 amended: every candidate is in [1,99], from a run of one or two digits,
\* in [13,31] only when the day was already claimed and in [32,99] only when
\* the year was already set; candidates are appended in the order of the runs
C9_Candidates == []CandidatesBounded /\ [][CandidateStep]_vars

C9_Witness == pc = "done" /\ nbrs = <<45>> /\ day = 15 /\ year = 1983

====
